---- MODULE Spec2Model ----
(***************************************************************************)
(* Order Execution Engine UI: the dashboard's order collection and metrics *)
(* snapshot (components/OrderExecutionDashboard.tsx), the API client the   *)
(* dashboard imports (src/lib/api.ts), the error boundary around it        *)
(* (components/ErrorBoundary.tsx, App.tsx) and the backend it talks to.    *)
(* The model follows one mount of the dashboard: from its construction to  *)
(* the moment a render throws and the error boundary takes it down.        *)
(***************************************************************************)
EXTENDS Integers, Sequences, FiniteSets, TLC

(***************************************************************************)
(* Bounds of the model.                                                    *)
(***************************************************************************)
\* creations the backend accepts in one run (ids it assigns)
MaxCreates == 1
\* timer ticks in one run of a specification with the request flows
MaxTicks == 1
\* cap of the queueDepth random walk in the tick-only specifications
MaxQueueDepth == 46
\* largest gauge of an enumerated pre-tick snapshot
MaxGauge == 5

(***************************************************************************)
(* JSON values as the client sees them.                                    *)
(*   - a scalar is a string; Undefined stands for a missing field; the     *)
(*     strings of Numbers are numbers, those of Booleans the booleans;     *)
(*   - an object is a record with t = "object" and the fields it carries;  *)
(*     null, text and arrays are records with another t.                   *)
(***************************************************************************)
Undefined == "undefined"

Numbers == {"145.5", "1.25", "0.042", "1.5", "42"}

Booleans == {"true", "false"}

\* typeof of a scalar
typeof(x) ==
    IF x = Undefined THEN "undefined"
    ELSE IF x \in Numbers THEN "number"
    ELSE IF x \in Booleans THEN "boolean"
    ELSE "string"

\* obj.f for a scalar field
Get(obj, f) == IF f \in DOMAIN obj THEN obj[f] ELSE Undefined

NullValue == [t |-> "null"]
UndefinedValue == [t |-> "undefined"]
TextValue == [t |-> "string"]
ArrayValue(items) == [t |-> "array", items |-> items]

\* obj.f (obj?.f) for a field that holds an object, an array or null
Member(obj, f) ==
    IF obj.t = "object" /\ f \in DOMAIN obj THEN obj[f] ELSE UndefinedValue

\* typeof of such a value: null and arrays are objects too
typeofValue(x) == IF x.t \in {"object", "array", "null"} THEN "object" ELSE x.t

\* its truthiness (text bodies are non-empty)
TruthyValue(x) == x.t \in {"object", "array", "string"}

\* An order object with all seven fields.
Entity(id, base, quote, amount, status, ts, key) ==
    [t |-> "object", id |-> id, baseToken |-> base, quoteToken |-> quote,
     amount |-> amount, status |-> status, timestamp |-> ts,
     idempotencyKey |-> key]

\* obj without its field f
Without(obj, f) == [g \in DOMAIN obj \ {f} |-> obj[g]]

\* obj with its field f set to v
With(obj, f, v) == [g \in DOMAIN obj \cup {f} |-> IF g = f THEN v ELSE obj[g]]

OrderStatus == {"QUEUED", "EXECUTING", "SUCCESS", "FAILED"}

INITIAL_ORDERS ==
    << Entity("ord_7f2k9x1m5", "SOL", "USDC", "145.5", "SUCCESS", "t-5m",
              "idem-8123-af92"),
       Entity("ord_1a8b3c4d5", "ETH", "USDT", "1.25", "EXECUTING", "t-15s",
              "idem-9210-cc01"),
       Entity("ord_9z0y1x2w3", "BTC", "USDC", "0.042", "QUEUED", "t-5s",
              "idem-4411-bd22") >>

\* SystemMetrics. The gauges are numbers in every snapshot the dashboard is
\* given (its literal, and fetchMetrics results, which put 0 for anything
\* that is not a number), so the typeof guards of the metrics tick always
\* take their number branch.
Snapshot(wa, mw, qd, tp, hs) ==
    [workersActive |-> wa, maxWorkers |-> mw, queueDepth |-> qd,
     throughput |-> tp, healthStatus |-> hs]

INITIAL_METRICS == Snapshot(8, 32, 42, 124, "healthy")

HealthStatus == {"healthy", "degraded", "down"}

Min(a, b) == IF a < b THEN a ELSE b
Max(a, b) == IF a > b THEN a ELSE b

(***************************************************************************)
(* The timer callback (setInterval, 3000 ms).                              *)
(***************************************************************************)
\* The random draws the callback takes for one order: "none" = the first
\* Math.random() is not over its threshold; "hit" = it is, and for an
\* EXECUTING order the SUCCESS/FAILED draw is over 0.1; "hitLow" = it is, and
\* that draw is not. No draw is taken for an order in any other status.
DrawsFor(order) ==
    IF Get(order, "status") = "QUEUED" THEN {"none", "hit"}
    ELSE IF Get(order, "status") = "EXECUTING" THEN {"none", "hit", "hitLow"}
    ELSE {"none"}

\* The draws of one callback, one per order.
RECURSIVE AllDraws(_)
AllDraws(os) ==
    IF os = << >> THEN {<< >>}
    ELSE {<< d >> \o rest : d \in DrawsFor(Head(os)), rest \in AllDraws(Tail(os))}

\* A map callback that sends an EXECUTING order back to QUEUED: what the
\* order tick must not be.
TickOrderBackward(order, draw) ==
    IF Get(order, "status") = "QUEUED" /\ draw # "none"
    THEN [order EXCEPT !.status = "EXECUTING"]
    ELSE IF Get(order, "status") = "EXECUTING" /\ draw # "none"
    THEN [order EXCEPT !.status = "QUEUED"]
    ELSE order

\* Map callbacks that take a QUEUED order all the way in one tick, or stamp
\* the order they move: what the order tick must not be.
TickOrderSkipping(order, draw) ==
    IF Get(order, "status") \in {"QUEUED", "EXECUTING"} /\ draw # "none"
    THEN [order EXCEPT !.status = IF draw = "hit" THEN "SUCCESS" ELSE "FAILED"]
    ELSE order

TickOrderRestamping(order, draw) ==
    IF Get(order, "status") = "QUEUED" /\ draw # "none"
    THEN [order EXCEPT !.status = "EXECUTING", !.timestamp = "t-tick"]
    ELSE IF Get(order, "status") = "EXECUTING" /\ draw # "none"
    THEN [order EXCEPT !.status = IF draw = "hit" THEN "SUCCESS" ELSE "FAILED",
                       !.timestamp = "t-tick"]
    ELSE order

\* A map callback that never settles an EXECUTING order: what the order tick
\* must not be.
TickOrderStalling(order, draw) ==
    IF Get(order, "status") = "QUEUED" /\ draw # "none"
    THEN [order EXCEPT !.status = "EXECUTING"]
    ELSE order

\* The map callback of the order tick.
TickOrder(order, draw) ==
    IF Get(order, "status") = "QUEUED" /\ draw # "none"
    THEN [order EXCEPT !.status = "EXECUTING"]
    ELSE IF Get(order, "status") = "EXECUTING" /\ draw # "none"
    THEN [order EXCEPT !.status = IF draw = "hit" THEN "SUCCESS" ELSE "FAILED"]
    ELSE order

\* An order tick that drops the orders already settled: what the map must
\* not be.
TickOrdersDroppingSettled(prev, draws) ==
    SelectSeq([i \in 1..Len(prev) |-> TickOrder(prev[i], draws[i])],
              LAMBDA o : Get(o, "status") \notin {"SUCCESS", "FAILED"})

\* setOrders(prev => prev.map(...)); prev is always an array here.
TickOrders(prev, draws) ==
    [i \in 1..Len(prev) |-> TickOrder(prev[i], draws[i])]

\* Metrics ticks with a clamp left out: no clamp at all, no floor of 4, no
\* ceiling of maxWorkers.
TickMetricsUnclamped(prev, dW, dQ) ==
    [prev EXCEPT
        !.workersActive = prev.workersActive + dW,
        !.queueDepth = prev.queueDepth + dQ]

TickMetricsNoFloor(prev, dW, dQ) ==
    [prev EXCEPT
        !.workersActive = Min(prev.maxWorkers, prev.workersActive + dW),
        !.queueDepth = Max(0, prev.queueDepth + dQ)]

TickMetricsNoCeiling(prev, dW, dQ) ==
    [prev EXCEPT
        !.workersActive = Max(4, prev.workersActive + dW),
        !.queueDepth = Max(0, prev.queueDepth + dQ)]

\* A metrics tick that also grows the pool: what the tick must not be.
TickMetricsGrowingPool(prev, dW, dQ) ==
    [prev EXCEPT
        !.maxWorkers = prev.maxWorkers + 1,
        !.workersActive = Min(prev.maxWorkers, Max(4, prev.workersActive + dW)),
        !.queueDepth = Max(0, prev.queueDepth + dQ)]

\* setMetrics(prev => ...): dW is +1 or -1, dQ is +2 or -2.
TickMetrics(prev, dW, dQ) ==
    [prev EXCEPT
        !.workersActive = Min(prev.maxWorkers, Max(4, prev.workersActive + dW)),
        !.queueDepth = Max(0, prev.queueDepth + dQ)]

(***************************************************************************)
(* The transport (apiRequest) and the API client of src/lib/api.ts.        *)
(***************************************************************************)
\* What apiRequest gives its caller: it throws (ok = FALSE) when fetch threw
\* or the status was not a success, else it returns the parsed body.
FailReply == [ok |-> FALSE]
OkReply(body) == [ok |-> TRUE, body |-> body]

\* createOrder's outcome: a returned value, or a thrown error.
Returned(value) == [threw |-> FALSE, value |-> value]
Thrown == [threw |-> TRUE]

\* A createOrder that stamps a key on an order that has none: what the
\* client must not do.
createOrderStampingKey(reply) ==
    IF ~reply.ok THEN Returned(NullValue)
    ELSE LET response == reply.body
             order == IF TruthyValue(Member(response, "order"))
                      THEN Member(response, "order")
                      ELSE response
         IN  IF /\ TruthyValue(order)
                /\ typeofValue(order) = "object"
                /\ typeof(Get(order, "id")) = "string"
                /\ typeof(Get(order, "status")) = "string"
             THEN Returned(IF "idempotencyKey" \in DOMAIN order THEN order
                           ELSE With(order, "idempotencyKey", "idem-request"))
             ELSE Returned(NullValue)

\* A createOrder that takes the response itself before its order member:
\* what the unwrapping is not.
createOrderDirectFirst(reply) ==
    IF ~reply.ok THEN Returned(NullValue)
    ELSE LET response == reply.body
             Valid(o) == /\ TruthyValue(o)
                         /\ typeofValue(o) = "object"
                         /\ typeof(Get(o, "id")) = "string"
                         /\ typeof(Get(o, "status")) = "string"
         IN  IF Valid(response) THEN Returned(response)
             ELSE IF Valid(Member(response, "order"))
             THEN Returned(Member(response, "order"))
             ELSE Returned(NullValue)

\* createOrder: null on any failure; response.order or else the response
\* itself, when it is an object whose id and status are strings.
createOrder(reply) ==
    IF ~reply.ok THEN Returned(NullValue)
    ELSE LET response == reply.body
             order == IF TruthyValue(Member(response, "order"))
                      THEN Member(response, "order")
                      ELSE response
         IN  IF /\ TruthyValue(order)
                /\ typeofValue(order) = "object"
                /\ typeof(Get(order, "id")) = "string"
                /\ typeof(Get(order, "status")) = "string"
             THEN Returned(order)
             ELSE Returned(NullValue)

IsArray(x) == x.t = "array"

\* A list read that hands a null element on when it finds no list: what
\* fetchOrders must not be.
fetchOrdersNullOnFailure(reply) ==
    IF reply.ok /\ IsArray(reply.body) THEN reply.body.items ELSE << NullValue >>

\* A list read that knows the bare array only: what fetchOrders must not be.
fetchOrdersBareOnly(reply) ==
    IF reply.ok /\ IsArray(reply.body) THEN reply.body.items ELSE << >>

\* fetchOrders: the bare array, else .orders, else .data, else []; [] when
\* the request failed.
fetchOrders(reply) ==
    IF ~reply.ok THEN << >>
    ELSE LET response == reply.body
         IN  IF IsArray(response) THEN response.items
             ELSE IF TruthyValue(response) /\ IsArray(Member(response, "orders"))
                  THEN Member(response, "orders").items
             ELSE IF TruthyValue(response) /\ IsArray(Member(response, "data"))
                  THEN Member(response, "data").items
             ELSE << >>

\* A gauge of a metrics payload that is a number.
Num(n) == [t |-> "number", n |-> n]

\* typeof x.f === 'number' ? x.f : 0
NumberOr0(obj, f) ==
    IF f \in DOMAIN obj /\ obj[f].t = "number" THEN obj[f].n ELSE 0

\* A metrics read that reports every unusable read as degraded: what
\* fetchMetrics must not be.
fetchMetricsAlwaysDegraded(reply) ==
    IF reply.ok /\ reply.body.t = "object"
    THEN Snapshot(NumberOr0(reply.body, "workersActive"),
                  NumberOr0(reply.body, "maxWorkers"),
                  NumberOr0(reply.body, "queueDepth"),
                  NumberOr0(reply.body, "throughput"), "healthy")
    ELSE Snapshot(0, 0, 0, 0, "degraded")

\* A metrics read that gives up on the whole payload when one gauge is not a
\* number: what fetchMetrics must not be.
fetchMetricsAllOrNothing(reply) ==
    IF ~reply.ok THEN Snapshot(0, 0, 0, 0, "degraded")
    ELSE IF /\ reply.body.t = "object"
            /\ \A f \in {"workersActive", "maxWorkers", "queueDepth", "throughput"} :
                  f \in DOMAIN reply.body /\ reply.body[f].t = "number"
    THEN Snapshot(reply.body.workersActive.n, reply.body.maxWorkers.n,
                  reply.body.queueDepth.n, reply.body.throughput.n,
                  IF Get(reply.body, "healthStatus") \in HealthStatus
                  THEN reply.body.healthStatus ELSE "healthy")
    ELSE Snapshot(0, 0, 0, 0, "healthy")

\* fetchMetrics: zeros for a text body, per-field defaults for an object,
\* zeros and degraded when the request failed.
fetchMetrics(reply) ==
    IF ~reply.ok THEN Snapshot(0, 0, 0, 0, "degraded")
    ELSE LET response == reply.body
         IN  IF response.t = "string" THEN Snapshot(0, 0, 0, 0, "healthy")
             ELSE IF TruthyValue(response) /\ typeofValue(response) = "object"
             THEN Snapshot(NumberOr0(response, "workersActive"),
                           NumberOr0(response, "maxWorkers"),
                           NumberOr0(response, "queueDepth"),
                           NumberOr0(response, "throughput"),
                           IF Get(response, "healthStatus") \in HealthStatus
                           THEN response.healthStatus ELSE "healthy")
             ELSE Snapshot(0, 0, 0, 0, "healthy")

\* A reset that takes any truthy success for a confirmation: what resetState
\* must not be.
resetStateTruthy(reply) ==
    IF ~reply.ok THEN [success |-> FALSE, message |-> "Reset failed"]
    ELSE [success |-> Get(reply.body, "success") \notin {Undefined, "false", ""},
          message |-> "Reset completed"]

\* resetState: success is body.success === true || body.status === 'ok';
\* the message is body.message || body.status || 'Reset completed'.
resetState(reply) ==
    IF ~reply.ok THEN [success |-> FALSE, message |-> "Reset failed"]
    ELSE LET response == reply.body
         IN  [success |-> \/ Get(response, "success") = "true"
                          \/ Get(response, "status") = "ok",
              message |-> IF Get(response, "message") \notin {Undefined, ""}
                          THEN response.message
                          ELSE IF Get(response, "status") \notin {Undefined, ""}
                          THEN response.status
                          ELSE "Reset completed"]

(***************************************************************************)
(* The backend and the inputs of the environment.                          *)
(***************************************************************************)
\* The ids the backend assigns, in order.
BackendIds == << "ord_b1", "ord_b2", "ord_b3", "ord_b4" >>

\* The n-th order the backend records for a creation (SOL/USDC from the form).
BackendOrder(n) ==
    Entity(BackendIds[n], "SOL", "USDC", "1.5", "QUEUED", "t-now", "idem-new")

\* What a payload can get wrong about an order.
CoreDefects == {"none"}
Defects == {"none", "noId", "numericId", "noStatus", "oddStatus", "noBaseToken"}
\* ... and the further ones the client is called with on its own
ClientDefects ==
    Defects \cup {"noQuoteToken", "noAmount", "textAmount", "numericStatus",
                  "noIdempotencyKey"}

Damage(e, d) ==
    CASE d = "noId" -> Without(e, "id")
      [] d = "numericId" -> [e EXCEPT !.id = "42"]
      [] d = "noStatus" -> Without(e, "status")
      [] d = "oddStatus" -> [e EXCEPT !.status = "PENDING"]
      [] d = "noBaseToken" -> Without(e, "baseToken")
      [] d = "noQuoteToken" -> Without(e, "quoteToken")
      [] d = "noAmount" -> Without(e, "amount")
      [] d = "textAmount" -> [e EXCEPT !.amount = "lots"]
      [] d = "numericStatus" -> [e EXCEPT !.status = "42"]
      [] d = "noIdempotencyKey" -> Without(e, "idempotencyKey")
      [] OTHER -> e

\* The envelopes of a creation response: the bare entity, {order: entity},
\* {data: entity}, JSON null, or a text body.
CoreShapes == {"bare"}
Shapes == {"bare", "order", "data", "null", "text"}
\* ... and the ones that can be unwrapped in more than one way: the entity
\* with an order member, a data member or both, and an envelope with both.
ClientShapes ==
    Shapes \cup {"bareWithOrder", "bareWithData", "bareWithBoth", "orderAndData"}

\* The orders such a response carries as members.
OrderMember ==
    Entity("ord_m1", "SOL", "USDC", "1.5", "QUEUED", "t-now", "idem-m1")
DataMember ==
    Entity("ord_m2", "SOL", "USDC", "1.5", "QUEUED", "t-now", "idem-m2")

Wrap(e, shape) ==
    CASE shape = "order" -> [t |-> "object", order |-> e]
      [] shape = "data" -> [t |-> "object", data |-> e]
      [] shape = "bareWithOrder" -> With(e, "order", OrderMember)
      [] shape = "bareWithData" -> With(e, "data", DataMember)
      [] shape = "bareWithBoth" ->
            With(With(e, "order", OrderMember), "data", DataMember)
      [] shape = "orderAndData" ->
            [t |-> "object", order |-> e, data |-> DataMember]
      [] shape = "null" -> NullValue
      [] shape = "text" -> TextValue
      [] OTHER -> e

\* The replies apiRequest can give to POST /api/orders for a recorded order.
CreateReplies(e, shapes, defects) ==
    {OkReply(Wrap(Damage(e, d), s)) : s \in shapes, d \in defects}
        \cup {FailReply}

\* What a list payload can get wrong: a null element, or a first element
\* that lacks a field.
CoreListDefects == {"none"}
ListDefects == {"none", "nullItem", "noBaseToken"}

DamageList(items, d) ==
    CASE d = "nullItem" -> << NullValue >> \o items
      [] d = "noBaseToken" /\ items # << >> ->
            << Without(Head(items), "baseToken") >> \o Tail(items)
      [] OTHER -> items

\* The envelopes of a list response.
CoreListShapes == {"array"}
ListShapes == {"array", "orders", "data", "items", "null", "text"}

WrapList(items, shape) ==
    CASE shape = "orders" -> [t |-> "object", orders |-> ArrayValue(items)]
      [] shape = "data" -> [t |-> "object", data |-> ArrayValue(items)]
      [] shape = "items" -> [t |-> "object", items |-> ArrayValue(items)]
      [] shape = "null" -> NullValue
      [] shape = "text" -> TextValue
      [] OTHER -> ArrayValue(items)

\* The replies apiRequest can give to GET /api/orders.
ListReplies(items, shapes, defects) ==
    {OkReply(WrapList(DamageList(items, d), s)) : s \in shapes, d \in defects}
        \cup {FailReply}

\* A metrics payload with numeric gauges.
MetricsBody(wa, mw, qd, tp, hs) ==
    [t |-> "object", workersActive |-> Num(wa), maxWorkers |-> Num(mw),
     queueDepth |-> Num(qd), throughput |-> Num(tp), healthStatus |-> hs]

\* The gauges a payload may carry.
PayloadGauges == {0 - 1, 0, 3, 9}

\* Payloads of GET /api/metrics: every combination of the gauges, a payload
\* without maxWorkers, one whose maxWorkers is a string, an empty object, a
\* bare array, JSON null, a text body.
MetricsPayloads ==
    {MetricsBody(wa, mw, qd, 3, hs) :
        wa \in PayloadGauges, mw \in PayloadGauges, qd \in PayloadGauges,
        hs \in {"down", "weird"}}
    \cup {Without(MetricsBody(5, 10, 7, 3, "healthy"), "maxWorkers"),
          [MetricsBody(5, 10, 7, 3, "healthy") EXCEPT !.maxWorkers = TextValue],
          [t |-> "object"],
          ArrayValue(<< >>),
          NullValue,
          TextValue}

\* The replies apiRequest can give to GET /api/metrics.
MetricsReplies == {OkReply(b) : b \in MetricsPayloads} \cup {FailReply}

\* A few of those replies: an in-range payload, an out-of-range one, a text
\* body, a failure.
SomeMetricsReplies ==
    {OkReply(MetricsBody(3, 9, 9, 3, "down")),
     OkReply(MetricsBody(9, 0 - 1, 0 - 1, 3, "weird")),
     OkReply(TextValue),
     FailReply}

CoreMetricsReplies == {OkReply(MetricsBody(3, 9, 9, 3, "down")), FailReply}

\* The replies apiRequest can give to POST /api/reset.
ResetReplies ==
    {OkReply([t |-> "object", success |-> "true", message |-> "State reset"]),
     FailReply}

\* Every body POST /api/reset may answer with: the two confirmations, a
\* success that is truthy but not true, a refusal, an unknown status, an
\* empty object, JSON null, a text body.
ResetBodies ==
    {[t |-> "object", success |-> "true", message |-> "State reset"],
     [t |-> "object", status |-> "ok"],
     [t |-> "object", success |-> "yes"],
     [t |-> "object", success |-> "false", message |-> "busy"],
     [t |-> "object", status |-> "done"],
     [t |-> "object"],
     NullValue,
     TextValue}

AllResetReplies == {OkReply(b) : b \in ResetBodies} \cup {FailReply}

\* The first n orders of the backend.
BackendList(n) == [i \in 1..n |-> BackendOrder(i)]

\* What the operator can type into the amount input.
CoreAmounts == {"", "1.5"}
FormAmounts == {"", "0", "-1", "1.5"}
\* ... and one beyond the doubles
TypedAmounts == FormAmounts \cup {"1e999"}

\* parseFloat of such an input, as far as handleSubmit looks at it.
\* "1e999" is beyond the doubles: parseFloat gives Infinity for it.
parseFloat(s) ==
    CASE s = "1.5" -> [isNaN |-> FALSE, sign |-> 1, finite |-> TRUE]
      [] s = "0" -> [isNaN |-> FALSE, sign |-> 0, finite |-> TRUE]
      [] s = "-1" -> [isNaN |-> FALSE, sign |-> 0 - 1, finite |-> TRUE]
      [] s = "1e999" -> [isNaN |-> FALSE, sign |-> 1, finite |-> FALSE]
      [] OTHER -> [isNaN |-> TRUE, sign |-> 0, finite |-> FALSE]

(***************************************************************************)
(* State.                                                                  *)
(***************************************************************************)
VARIABLES
    orders,         \* useState<Order[]>: the order collection
    metrics,        \* useState<SystemMetrics>: the metrics snapshot
    formAmount,     \* form.amount
    isSubmitting,   \* useState(false)
    notice,         \* the failure notice a catch block raised last
    hasError,       \* ErrorBoundary.state.hasError: the dashboard is gone
    submitPc,       \* where handleSubmit stands
    createReply,    \* the reply to POST /api/orders, once served
    resetPc,        \* where handleResetState stands
    resetResult,    \* what resetState() returned, while the refresh runs
    listReply,      \* the reply to GET /api/orders, once served
    backendOrders,  \* the orders the backend holds
    nextId,         \* the next id the backend assigns
    ticks,          \* timer ticks so far
    call            \* the last call made to the API client on its own

vars == << orders, metrics, formAmount, isSubmitting, notice, hasError,
           submitPc, createReply, resetPc, resetResult, listReply,
           backendOrders, nextId, ticks, call >>

storeVars == << orders, metrics >>
submitVars == << submitPc, createReply >>
resetVars == << resetPc, resetResult, listReply >>
backendVars == << backendOrders, nextId >>

NoResetResult == [success |-> FALSE, message |-> ""]

NoCall == [fn |-> "none"]

\* Everything but the metrics snapshot, after construction.
InitRest ==
    /\ orders = INITIAL_ORDERS
    /\ formAmount = ""
    /\ isSubmitting = FALSE
    /\ notice = "none"
    /\ hasError = FALSE
    /\ submitPc = "idle"
    /\ createReply = FailReply
    /\ resetPc = "idle"
    /\ resetResult = NoResetResult
    /\ listReply = FailReply
    /\ backendOrders = << >>
    /\ nextId = 1
    /\ ticks = 0
    /\ call = NoCall

Init ==
    /\ metrics = INITIAL_METRICS
    /\ InitRest

(***************************************************************************)
(* Rendering: the backlog maps every order to an OrderCard keyed by        *)
(* order.id, and the card reads statusConfig[order.status].icon. A null    *)
(* element or a status outside the four throws, and the error boundary     *)
(* replaces (unmounts) the dashboard.                                      *)
(***************************************************************************)
Renderable(os) ==
    \A i \in 1..Len(os) :
        /\ os[i].t = "object"
        /\ Get(os[i], "status") \in OrderStatus

\* An update that puts the new order last: what the prepend must not be.
AppendOrder(newOrder, prev) == prev \o << newOrder >>

\* An update computed from the collection as it was at mount: what the
\* functional update must not be.
PrependToInitial(newOrder, prev) == << newOrder >> \o INITIAL_ORDERS

\* setOrders(prev => [newOrder, ...prev])
PrependOrder(newOrder, prev) == << newOrder >> \o prev

(***************************************************************************)
(* React state setters (useState). Once the dashboard is unmounted its     *)
(* state is gone: a setter called by a flow that is still running changes  *)
(* nothing.                                                                *)
(***************************************************************************)
\* A setter that still writes after the unmount: what a setter must not be.
SetStateAlways(mounted, current, next) == next

SetState(mounted, current, next) == IF mounted THEN next ELSE current

\* A timer that outlives the dashboard: what the cleanup must prevent.
TimerAlwaysArmed == TRUE

\* The interval set by the effect is cleared by its cleanup at unmount.
TimerArmed == ~hasError

(***************************************************************************)
(* Timer tick: the order tick and the metrics tick of one callback.        *)
(***************************************************************************)
TickStep(draws, dW, dQ) ==
    /\ TimerArmed
    /\ orders' = SetState(~hasError, orders, TickOrders(orders, draws))
    /\ metrics' = SetState(~hasError, metrics, TickMetrics(metrics, dW, dQ))
    /\ UNCHANGED << formAmount, isSubmitting, notice, hasError, submitVars,
                    resetVars, backendVars, call >>

\* A tick among the request flows.
Tick ==
    /\ ticks < MaxTicks
    /\ \E draws \in AllDraws(orders), dW \in {1, -1}, dQ \in {2, -2} :
          TickStep(draws, dW, dQ)
    /\ ticks' = ticks + 1

\* A tick of a run that has nothing but ticks: any number of them, the
\* counter stopping at its bound and the queue at its cap.
TimerTick ==
    /\ \E draws \in AllDraws(orders), dW \in {1, -1}, dQ \in {2, -2} :
          TickStep(draws, dW, dQ)
    /\ metrics'.queueDepth <= MaxQueueDepth
    /\ ticks' = Min(ticks + 1, MaxTicks)

(***************************************************************************)
(* The form.                                                               *)
(***************************************************************************)
\* onChange of the amount input
ChangeAmount(amounts) ==
    /\ ~hasError
    /\ \E a \in amounts \ {formAmount} : formAmount' = a
    /\ UNCHANGED << storeVars, isSubmitting, notice, hasError, submitVars,
                    resetVars, backendVars, ticks, call >>

\* A handleSubmit that shows the order before the backend answers: what the
\* handler must not do.
SubmitFormWithPlaceholder ==
    /\ ~hasError
    /\ ~isSubmitting
    /\ formAmount # ""
    /\ LET parsedAmount == parseFloat(formAmount)
       IN  IF parsedAmount.isNaN \/ parsedAmount.sign <= 0
           THEN UNCHANGED << orders, isSubmitting, submitVars >>
           ELSE /\ isSubmitting' = TRUE
                /\ submitPc' = "createSent"
                /\ orders' = << Entity("pending", "SOL", "USDC", formAmount,
                                       "QUEUED", "t-now", Undefined) >> \o orders
                /\ UNCHANGED createReply
    /\ UNCHANGED << metrics, formAmount, notice, hasError, resetVars,
                    backendVars, ticks, call >>

\* handleSubmit up to its first await. The submit button is disabled while
\* isSubmitting or the amount is empty. On an amount that is not a positive
\* number it shows a modal alert and returns: nothing is left behind.
SubmitForm ==
    /\ ~hasError
    /\ ~isSubmitting
    /\ formAmount # ""
    /\ LET parsedAmount == parseFloat(formAmount)
       IN  IF parsedAmount.isNaN \/ parsedAmount.sign <= 0
           THEN UNCHANGED << isSubmitting, submitVars >>
           ELSE /\ isSubmitting' = TRUE
                /\ submitPc' = "createSent"
                /\ UNCHANGED createReply
    /\ UNCHANGED << storeVars, formAmount, notice, hasError, resetVars,
                    backendVars, ticks, call >>

\* The backend handles POST /api/orders: it records a new order and answers,
\* or the request fails before it records anything.
ServeCreate(shapes, defects) ==
    /\ submitPc = "createSent"
    /\ \/ /\ createReply' = FailReply
          /\ UNCHANGED backendVars
       \/ /\ nextId <= MaxCreates
          /\ backendOrders' = Append(backendOrders, BackendOrder(nextId))
          /\ nextId' = nextId + 1
          /\ createReply' \in CreateReplies(BackendOrder(nextId), shapes, defects)
    /\ submitPc' = "createServed"
    /\ UNCHANGED << storeVars, formAmount, isSubmitting, notice, hasError,
                    resetVars, ticks, call >>

\* handleSubmit after await createOrder: prepend, clear the amount, ask for
\* the metrics; or the catch and finally blocks when createOrder threw.
SubmitCreated ==
    /\ submitPc = "createServed"
    /\ LET res == createOrder(createReply)
       IN  IF res.threw
           THEN /\ submitPc' = "idle"
                /\ notice' = SetState(~hasError, notice, "createFailed")
                /\ isSubmitting' = SetState(~hasError, isSubmitting, FALSE)
                /\ UNCHANGED << orders, formAmount, hasError >>
           ELSE /\ submitPc' = "metricsSent"
                /\ orders' = SetState(~hasError, orders,
                                      PrependOrder(res.value, orders))
                /\ formAmount' = SetState(~hasError, formAmount, "")
                /\ hasError' = (hasError \/ ~Renderable(orders'))
                /\ UNCHANGED << notice, isSubmitting >>
    /\ createReply' = FailReply
    /\ UNCHANGED << metrics, resetVars, backendVars, ticks, call >>

\* An end of handleSubmit without its finally block: what the handler must
\* not be.
SubmitMetricsKeepingFlag(replies) ==
    /\ submitPc = "metricsSent"
    /\ \E reply \in replies :
          metrics' = SetState(~hasError, metrics, fetchMetrics(reply))
    /\ submitPc' = "idle"
    /\ UNCHANGED << orders, formAmount, isSubmitting, notice, hasError,
                    createReply, resetVars, backendVars, ticks, call >>

\* handleSubmit after await fetchMetrics, and its finally block.
SubmitMetrics(replies) ==
    /\ submitPc = "metricsSent"
    /\ \E reply \in replies :
          metrics' = SetState(~hasError, metrics, fetchMetrics(reply))
    /\ isSubmitting' = SetState(~hasError, isSubmitting, FALSE)
    /\ submitPc' = "idle"
    /\ UNCHANGED << orders, formAmount, notice, hasError, createReply,
                    resetVars, backendVars, ticks, call >>

(***************************************************************************)
(* Reset State.                                                            *)
(***************************************************************************)
\* A Reset click that issues the reads at once, without resetState: what the
\* handler must not be.
ResetClickReadingAtOnce ==
    /\ ~hasError
    /\ resetPc = "idle"
    /\ resetPc' = "readsSent"
    /\ UNCHANGED << storeVars, formAmount, isSubmitting, notice, hasError,
                    submitVars, resetResult, listReply, backendVars, ticks,
                    call >>

\* handleResetState up to await resetState(). The model follows one reset
\* flow at a time.
ResetClick ==
    /\ ~hasError
    /\ resetPc = "idle"
    /\ resetPc' = "resetSent"
    /\ UNCHANGED << storeVars, formAmount, isSubmitting, notice, hasError,
                    submitVars, resetResult, listReply, backendVars, ticks,
                    call >>

\* The backend handles POST /api/reset: it drops its orders and answers, or
\* the request fails, handled or not. resetState() resolves and
\* handleResetState, which does not look at the result, goes on to issue
\* fetchOrders and fetchMetrics together.
ServeReset ==
    /\ resetPc = "resetSent"
    /\ \E reply \in ResetReplies :
          /\ resetResult' = resetState(reply)
          /\ \/ backendOrders' = << >>
             \/ ~reply.ok /\ UNCHANGED backendOrders
    /\ resetPc' = "readsSent"
    /\ UNCHANGED << storeVars, formAmount, isSubmitting, notice, hasError,
                    submitVars, listReply, nextId, ticks, call >>

\* The backend handles GET /api/orders.
ServeList(shapes, defects) ==
    /\ resetPc = "readsSent"
    /\ listReply' \in ListReplies(backendOrders, shapes, defects)
    /\ resetPc' = "listServed"
    /\ UNCHANGED << storeVars, formAmount, isSubmitting, notice, hasError,
                    submitVars, resetResult, backendVars, ticks, call >>

\* A refresh that gives up with the failure notice when resetState did not
\* report success: what the refresh must not be.
ReadsResolvedOnSuccess(replies) ==
    /\ resetPc = "listServed"
    /\ IF resetResult.success
       THEN /\ orders' = SetState(~hasError, orders, fetchOrders(listReply))
            /\ \E reply \in replies :
                  metrics' = SetState(~hasError, metrics, fetchMetrics(reply))
            /\ UNCHANGED notice
       ELSE /\ notice' = SetState(~hasError, notice, "resetFailed")
            /\ UNCHANGED storeVars
    /\ hasError' = (hasError \/ ~Renderable(orders'))
    /\ resetPc' = "idle"
    /\ resetResult' = NoResetResult
    /\ listReply' = FailReply
    /\ UNCHANGED << formAmount, isSubmitting, submitVars, backendVars,
                    ticks, call >>

\* A refresh that puts the list read in front of the collection it finds: what
\* the refresh must not be.
ReadsMerged(replies) ==
    /\ resetPc = "listServed"
    /\ orders' = SetState(~hasError, orders, fetchOrders(listReply) \o orders)
    /\ \E reply \in replies :
          metrics' = SetState(~hasError, metrics, fetchMetrics(reply))
    /\ hasError' = (hasError \/ ~Renderable(orders'))
    /\ resetPc' = "idle"
    /\ resetResult' = NoResetResult
    /\ listReply' = FailReply
    /\ UNCHANGED << formAmount, isSubmitting, notice, submitVars, backendVars,
                    ticks, call >>

\* handleResetState after Promise.all: replace the collection and the snapshot.
ReadsResolved(replies) ==
    /\ resetPc = "listServed"
    /\ orders' = SetState(~hasError, orders, fetchOrders(listReply))
    /\ \E reply \in replies :
          metrics' = SetState(~hasError, metrics, fetchMetrics(reply))
    /\ hasError' = (hasError \/ ~Renderable(orders'))
    /\ resetPc' = "idle"
    /\ resetResult' = NoResetResult
    /\ listReply' = FailReply
    /\ UNCHANGED << formAmount, isSubmitting, notice, submitVars, backendVars,
                    ticks, call >>

(***************************************************************************)
(* The dashboard with all its flows.                                       *)
(***************************************************************************)
Next ==
    \/ Tick
    \/ ChangeAmount(CoreAmounts)
    \/ SubmitForm
    \/ ServeCreate(CoreShapes, CoreDefects)
    \/ SubmitCreated
    \/ SubmitMetrics(CoreMetricsReplies)
    \/ ResetClick
    \/ ServeReset
    \/ ServeList(CoreListShapes, CoreListDefects)
    \/ ReadsResolved(CoreMetricsReplies)

Spec == Init /\ [][Next]_vars

(***************************************************************************)
(* The submit flow alone, with every creation payload.                     *)
(***************************************************************************)
SubmitNext ==
    \/ Tick
    \/ ChangeAmount(FormAmounts)
    \/ SubmitForm
    \/ ServeCreate(Shapes, Defects)
    \/ SubmitCreated
    \/ SubmitMetrics(SomeMetricsReplies)

SpecSubmit == Init /\ [][SubmitNext]_vars

(***************************************************************************)
(* The reset flow alone, with every list payload, against a backend that   *)
(* holds up to MaxCreates + 1 orders when the page is loaded.              *)
(***************************************************************************)
InitReset ==
    /\ metrics = INITIAL_METRICS
    /\ orders = INITIAL_ORDERS
    /\ formAmount = ""
    /\ isSubmitting = FALSE
    /\ notice = "none"
    /\ hasError = FALSE
    /\ submitPc = "idle"
    /\ createReply = FailReply
    /\ resetPc = "idle"
    /\ resetResult = NoResetResult
    /\ listReply = FailReply
    /\ \E n \in 0..(MaxCreates + 1) :
          /\ backendOrders = BackendList(n)
          /\ nextId = n + 1
    /\ ticks = 0
    /\ call = NoCall

ResetNext ==
    \/ Tick
    \/ ResetClick
    \/ ServeReset
    \/ ServeList(ListShapes, ListDefects)
    \/ ReadsResolved(SomeMetricsReplies)

SpecReset == InitReset /\ [][ResetNext]_vars

(***************************************************************************)
(* The submit flow with every amount the input can hold.                   *)
(***************************************************************************)
FormNext ==
    \/ Tick
    \/ ChangeAmount(TypedAmounts)
    \/ SubmitForm
    \/ ServeCreate(CoreShapes, CoreDefects)
    \/ SubmitCreated
    \/ SubmitMetrics(CoreMetricsReplies)

SpecForm == Init /\ [][FormNext]_vars

(***************************************************************************)
(* The submit flow with requests that resolve: the backend answers every   *)
(* request and the continuation of an await runs once its promise settled. *)
(***************************************************************************)
ResolvingNext ==
    \/ Tick
    \/ ChangeAmount(CoreAmounts)
    \/ SubmitForm
    \/ ServeCreate(CoreShapes, CoreDefects)
    \/ SubmitCreated
    \/ SubmitMetrics(CoreMetricsReplies)

RequestsResolve ==
    /\ WF_vars(ServeCreate(CoreShapes, CoreDefects))
    /\ WF_vars(SubmitCreated)
    /\ WF_vars(SubmitMetrics(CoreMetricsReplies))

SpecSubmitResolving == Init /\ [][ResolvingNext]_vars /\ RequestsResolve

(***************************************************************************)
(* Only ticks, from the initial snapshot.                                  *)
(***************************************************************************)
SpecTicks == Init /\ [][TimerTick]_vars

(***************************************************************************)
(* Only ticks, the interval firing for ever and the draws of Math.random   *)
(* fair to every order: an order that can move is moved by some tick.      *)
(***************************************************************************)
TickMoves(i) == TimerTick /\ orders'[i] # orders[i]

FairTicks == \A i \in 1..Len(INITIAL_ORDERS) : WF_vars(TickMoves(i))

SpecTicksFair == SpecTicks /\ FairTicks

(***************************************************************************)
(* Only ticks, from any snapshot with gauges between -MaxGauge and         *)
(* MaxGauge.                                                               *)
(***************************************************************************)
Gauges == (0 - MaxGauge)..MaxGauge

InitSnapshots ==
    /\ metrics \in {Snapshot(wa, mw, qd, 124, "healthy") :
                        wa \in Gauges, mw \in Gauges, qd \in Gauges}
    /\ InitRest

SpecSnapshots == InitSnapshots /\ [][TimerTick]_vars

(***************************************************************************)
(* Only ticks, from a snapshot assigned from a fetchMetrics result.        *)
(***************************************************************************)
InitAssigned ==
    /\ metrics \in {fetchMetrics(reply) : reply \in MetricsReplies}
    /\ InitRest

SpecAssigned == InitAssigned /\ [][TimerTick]_vars

(***************************************************************************)
(* The API client called on its own, once per step, with every reply the   *)
(* transport can give it.                                                  *)
(***************************************************************************)
flowVars == << storeVars, formAmount, isSubmitting, notice, hasError,
               submitVars, resetVars, backendVars, ticks >>

\* What the form hands to createOrder.
OrderData == [baseToken |-> "SOL", quoteToken |-> "USDC", amount |-> "1.5"]

\* The names of the headers apiRequest sends: Content-Type and the caller's.
RequestHeaders(optionHeaders) == {"Content-Type"} \cup optionHeaders

\* The request createOrder hands to apiRequest: method and body, no headers
\* of its own.
CreateRequest(orderData) ==
    [endpoint |-> "/api/orders", method |-> "POST",
     headers |-> RequestHeaders({}), body |-> orderData]

CallCreateOrder ==
    /\ \E s \in ClientShapes, d \in ClientDefects, ok \in BOOLEAN :
          LET entity == BackendOrder(1)
              reply == IF ok THEN OkReply(Wrap(Damage(entity, d), s))
                       ELSE FailReply
          IN  call' = [fn |-> "createOrder", request |-> CreateRequest(OrderData),
                       entity |-> entity, shape |-> s, defect |-> d,
                       reply |-> reply, outcome |-> createOrder(reply)]
    /\ UNCHANGED flowVars

\* fetchOrders, fetchMetrics and resetState have their whole body in a try
\* block whose catch returns: their outcome is always a return.
CallFetchOrders ==
    /\ \E n \in 0..(MaxCreates + 1), s \in ListShapes, d \in ListDefects,
          ok \in BOOLEAN :
          LET items == DamageList(BackendList(n), d)
              reply == IF ok THEN OkReply(WrapList(items, s)) ELSE FailReply
          IN  call' = [fn |-> "fetchOrders", items |-> items, shape |-> s,
                       reply |-> reply,
                       outcome |-> Returned(fetchOrders(reply))]
    /\ UNCHANGED flowVars

CallFetchMetrics ==
    /\ \E reply \in MetricsReplies :
          call' = [fn |-> "fetchMetrics", reply |-> reply,
                   outcome |-> Returned(fetchMetrics(reply))]
    /\ UNCHANGED flowVars

CallResetState ==
    /\ \E reply \in AllResetReplies :
          call' = [fn |-> "resetState", reply |-> reply,
                   outcome |-> Returned(resetState(reply))]
    /\ UNCHANGED flowVars

ClientNext ==
    \/ CallCreateOrder
    \/ CallFetchOrders
    \/ CallFetchMetrics
    \/ CallResetState

SpecClient == Init /\ [][ClientNext]_vars

(***************************************************************************)
(* Properties.                                                             *)
(***************************************************************************)
StatusOf(o) == Get(o, "status")
IdOf(o) == Get(o, "id")

\* b is a at rest or one legal transition on.
Forward(a, b) ==
    \/ a = b
    \/ a = "QUEUED" /\ b = "EXECUTING"
    \/ a = "EXECUTING" /\ b \in {"SUCCESS", "FAILED"}

\* Every status the new collection holds for an id the old one held is
\* a status the old one held for it, or one legal transition on.
StatusesForward(old, new) ==
    \A j \in 1..Len(new) :
        (\E i \in 1..Len(old) :
            typeof(IdOf(old[i])) = "string" /\ IdOf(old[i]) = IdOf(new[j]))
        => (\E i \in 1..Len(old) :
                /\ IdOf(old[i]) = IdOf(new[j])
                /\ Forward(StatusOf(old[i]), StatusOf(new[j])))

\* The new collection keeps every entry of the old one in place, behind at
\* most one new first entry, each with its id and with its status at rest
\* or one legal transition on.
KeepsEntriesForward(old, new) ==
    LET k == Len(new) - Len(old)
    IN  /\ k \in {0, 1}
        /\ \A i \in 1..Len(old) :
              \/ new[i + k] = old[i]
              \/ /\ IdOf(new[i + k]) = IdOf(old[i])
                 /\ Forward(StatusOf(old[i]), StatusOf(new[i + k]))

\* The step in which handleResetState replaces the collection.
RefreshReplaces == resetPc = "listServed" /\ resetPc' = "idle"

\* C1 as stated: over every step (ticks, creations and reset refreshes) the
\* status held for an order id changes only along QUEUED -> EXECUTING and
\* EXECUTING -> SUCCESS or FAILED, and never leaves SUCCESS or FAILED.
C1_StatusForwardEveryStep == [][StatusesForward(orders, orders')]_vars

\* C1 amended: every step other than the replacement of the collection by a
\* reset refresh keeps every entry it held and changes an entry's status only
\* along QUEUED -> EXECUTING and EXECUTING -> SUCCESS or FAILED; the refresh
\* puts the listed orders in its place, whatever status they carry.
C1_StatusForwardOutsideRefresh ==
    [][RefreshReplaces \/ KeepsEntriesForward(orders, orders')]_vars

\* C1 witness: a created order that a tick has moved on to EXECUTING.
C1_CreatedOrderExecuting ==
    /\ ~hasError
    /\ ticks > 0
    /\ Len(orders) = 4
    /\ IdOf(orders[1]) = "ord_b1"
    /\ StatusOf(orders[1]) = "EXECUTING"

\* createOrder did not succeed on this reply: it threw or gave no order.
CreateFailed(reply) ==
    LET res == createOrder(reply)
    IN  res.threw \/ res.value = NullValue

\* The step in which handleSubmit goes on after await createOrder.
CreateResolves == submitPc = "createServed" /\ submitPc' # "createServed"

\* C2 as stated: when createOrder fails, the step that resolves it raises a
\* failure notice and leaves the order collection exactly as it was.
C2_FailedCreateLeavesOrders ==
    [][(CreateResolves /\ CreateFailed(createReply))
        => (orders' = orders /\ notice' = "createFailed")]_vars

\* C3: when createOrder succeeds, the step that resolves it makes the
\* returned order the first element, keeps the previous orders behind it in
\* their order, and so grows the collection by exactly one.
C3_CreatedOrderPrepended ==
    [][(CreateResolves /\ ~CreateFailed(createReply))
        => /\ Len(orders') = Len(orders) + 1
           /\ Head(orders') = createOrder(createReply).value
           /\ Tail(orders') = orders]_vars

\* C3 witness: the created order ord_b1 stands in front of the three initial
\* orders, and the submit flow has gone on to its metrics read.
C3_CreatedOrderFirst ==
    /\ ~hasError
    /\ submitPc = "metricsSent"
    /\ Len(orders) = 4
    /\ IdOf(orders[1]) = "ord_b1"
    /\ << IdOf(orders[2]), IdOf(orders[3]), IdOf(orders[4]) >>
          = << "ord_7f2k9x1m5", "ord_1a8b3c4d5", "ord_9z0y1x2w3" >>

\* C4 as stated: no two entries of the order collection have the same id.
C4_UniqueIds ==
    \A i, j \in 1..Len(orders) :
        (i < j /\ typeof(IdOf(orders[i])) = "string")
            => IdOf(orders[i]) # IdOf(orders[j])

Bounded(m) ==
    /\ m.workersActive <= m.maxWorkers
    /\ m.queueDepth >= 0

\* C5 as stated: whatever the pre-tick snapshot, after a metrics tick
\* 0 <= workersActive <= maxWorkers and queueDepth >= 0.
C5_TickBoundsAnySnapshot ==
    ticks > 0 => (0 <= metrics.workersActive /\ Bounded(metrics))

\* C5 amended: whatever the pre-tick snapshot, after a metrics tick
\* min(4, maxWorkers) <= workersActive <= maxWorkers and queueDepth >= 0; so
\* workersActive is non-negative when maxWorkers is, and is the negative
\* maxWorkers itself otherwise.
C5_TickBoundsRelativeToMax ==
    ticks > 0 => /\ Min(4, metrics.maxWorkers) <= metrics.workersActive
                 /\ Bounded(metrics)
                 /\ (metrics.maxWorkers < 0
                        => metrics.workersActive = metrics.maxWorkers)

\* C5 witness: a tick has run on a snapshot with a negative maxWorkers and
\* left workersActive at it.
C5_NegativeMaxTicked ==
    /\ ticks > 0
    /\ metrics.maxWorkers = 0 - 2
    /\ metrics.workersActive = 0 - 2
    /\ metrics.queueDepth = 0

\* C6: from the initial snapshot, with nothing but ticks, always
\* 4 <= workersActive <= 32, maxWorkers = 32 and queueDepth >= 0.
C6_InitialSnapshotBounds ==
    /\ 4 <= metrics.workersActive
    /\ metrics.workersActive <= 32
    /\ metrics.maxWorkers = 32
    /\ metrics.queueDepth >= 0

\* C6 witness: ticks have walked workersActive down to its floor and the
\* queue down to empty.
C6_AtFloor ==
    /\ ticks > 0
    /\ metrics.workersActive = 4
    /\ metrics.queueDepth = 0
    /\ metrics.maxWorkers = 32

\* C7 as stated: once the snapshot was assigned from a fetchMetrics result,
\* every later tick yields 4 <= workersActive <= maxWorkers and
\* queueDepth >= 0.
C7_AssignedTickBounds ==
    ticks > 0 => (4 <= metrics.workersActive /\ Bounded(metrics))

\* C7 amended: once the snapshot was assigned from a fetchMetrics result,
\* every later tick yields workersActive <= maxWorkers and queueDepth >= 0,
\* and 4 <= workersActive whenever the assigned maxWorkers is at least 4.
C7_AssignedTickBoundsWhenMaxAllows ==
    ticks > 0 => /\ Bounded(metrics)
                 /\ (metrics.maxWorkers >= 4 => 4 <= metrics.workersActive)

\* C7 witness: a tick has run on an assigned snapshot with maxWorkers 9 and
\* a negative queueDepth, and clamped both gauges.
C7_AssignedThenTicked ==
    /\ ticks > 0
    /\ metrics.maxWorkers = 9
    /\ metrics.workersActive = 4
    /\ metrics.queueDepth = 0
    /\ metrics.healthStatus = "down"

\* C8 as stated: while the dashboard is shown, maxWorkers is positive,
\* 0 <= workersActive <= maxWorkers, queueDepth >= 0, throughput >= 0 and
\* healthStatus is healthy, degraded or down.
C8_MetricsInvariant ==
    ~hasError =>
        /\ metrics.maxWorkers > 0
        /\ 0 <= metrics.workersActive
        /\ Bounded(metrics)
        /\ metrics.throughput >= 0
        /\ metrics.healthStatus \in HealthStatus

\* An Order of the data model.
WellFormedOrder(o) ==
    /\ o.t = "object"
    /\ typeof(IdOf(o)) = "string"
    /\ typeof(Get(o, "baseToken")) = "string"
    /\ typeof(Get(o, "quoteToken")) = "string"
    /\ typeof(Get(o, "amount")) = "number"
    /\ StatusOf(o) \in OrderStatus

\* C9 as stated: while the dashboard is shown, every element of the order
\* collection is a well-formed Order.
C9_OrdersWellFormed ==
    ~hasError => \A i \in 1..Len(orders) : WellFormedOrder(orders[i])

\* The list read failed: the transport failed, or the payload holds no
\* array where fetchOrders looks for one.
ListFailed(reply) ==
    \/ ~reply.ok
    \/ /\ ~IsArray(reply.body)
       /\ ~IsArray(Member(reply.body, "orders"))
       /\ ~IsArray(Member(reply.body, "data"))

\* C10 as stated: when the list read of a refresh failed, the step that
\* applies the refresh retains the order collection held before it.
C10_FailedRefreshRetainsOrders ==
    [][(RefreshReplaces /\ ListFailed(listReply)) => orders' = orders]_vars

\* The all-zero snapshot with the given health.
ZeroSnapshot(hs) == Snapshot(0, 0, 0, 0, hs)

\* C11: fetchOrders never throws, and returns the empty sequence when the
\* transport failed or the payload holds no array where it looks for one.
C11_ListReadNeverThrows ==
    call.fn = "fetchOrders" =>
        /\ ~call.outcome.threw
        /\ ListFailed(call.reply) => call.outcome.value = << >>

\* C11 witness: fetchOrders was called, the transport answered with a text
\* body, and it returned the empty sequence.
C11_TextBodyGivesEmpty ==
    /\ call.fn = "fetchOrders"
    /\ call.reply = OkReply(TextValue)
    /\ call.outcome = Returned(<< >>)

\* C12: fetchMetrics never throws; a transport failure gives the all-zero
\* snapshot with degraded, a transport success with a bare array or a text
\* body the all-zero snapshot with healthy.
C12_MetricsReadDegradesTwoWays ==
    call.fn = "fetchMetrics" =>
        /\ ~call.outcome.threw
        /\ ~call.reply.ok => call.outcome.value = ZeroSnapshot("degraded")
        /\ (call.reply.ok /\ call.reply.body.t \in {"array", "string"})
              => call.outcome.value = ZeroSnapshot("healthy")

\* C12 witness: fetchMetrics was called, the transport answered with a bare
\* array, and it returned the all-zero snapshot with healthy.
C12_ArrayBodyGivesHealthyZeros ==
    /\ call.fn = "fetchMetrics"
    /\ call.reply = OkReply(ArrayValue(<< >>))
    /\ call.outcome = Returned(ZeroSnapshot("healthy"))

\* The body confirms the reset: success is the boolean true, or status is ok.
Confirms(body) == Get(body, "success") = "true" \/ Get(body, "status") = "ok"

\* C13: resetState never throws; a transport failure gives success = false
\* with the message Reset failed; a transport success gives success = true
\* exactly when the body confirms, and success = false for any other body.
C13_ResetNeverThrows ==
    call.fn = "resetState" =>
        /\ ~call.outcome.threw
        /\ ~call.reply.ok
              => call.outcome.value = [success |-> FALSE, message |-> "Reset failed"]
        /\ call.reply.ok
              => call.outcome.value.success = Confirms(call.reply.body)

\* C13 witness: resetState was called, the body's success was truthy but not
\* true, and it returned success = false.
C13_TruthySuccessNotConfirmed ==
    /\ call.fn = "resetState"
    /\ call.reply.ok
    /\ Get(call.reply.body, "success") = "yes"
    /\ call.outcome.value.success = FALSE

\* C14 as stated: for a valid entity delivered bare, as {order: entity} or as
\* {data: entity}, createOrder returns the Order it returns for the bare one.
C14_EnvelopesEquivalent ==
    (/\ call.fn = "createOrder"
     /\ call.reply.ok
     /\ call.defect = "none"
     /\ call.shape \in {"bare", "order", "data"})
        => /\ call.outcome = createOrder(OkReply(call.entity))
           /\ call.outcome = Returned(call.entity)

\* The field a defect of a creation payload is about.
FieldOf(d) ==
    CASE d \in {"noId", "numericId"} -> "id"
      [] d = "noBaseToken" -> "baseToken"
      [] d = "noQuoteToken" -> "quoteToken"
      [] d \in {"noAmount", "textAmount"} -> "amount"
      [] d \in {"noStatus", "numericStatus"} -> "status"
      [] OTHER -> "none"

\* A thrown validation error that names a field.
ValidationError(field) == [threw |-> TRUE, field |-> field]

\* C15 as stated: a creation response with one required field missing or
\* mistyped makes createOrder fail with a validation error naming the field.
C15_ValidationNamesField ==
    (/\ call.fn = "createOrder"
     /\ call.reply.ok
     /\ call.shape = "bare"
     /\ FieldOf(call.defect) # "none")
        => call.outcome = ValidationError(FieldOf(call.defect))

\* C16 as stated: every creation request createOrder sends carries an
\* Idempotency-Key header.
C16_IdempotencyKeySent ==
    call.fn = "createOrder" => "Idempotency-Key" \in call.request.headers

\* The step in which the timer callback runs.
TickApplied == ticks' # ticks

\* C17: a createOrder completion and a tick are each computed from the
\* collection as it is when they apply: the completion puts the new order in
\* front of every entry as the ticks so far left it, and a tick gives every
\* entry, the prepended one included, one outcome of its own draw.
C17_UpdatesFromLatest ==
    [][/\ (CreateResolves /\ ~CreateFailed(createReply) /\ ~hasError)
            => /\ Len(orders') = Len(orders) + 1
               /\ orders'[1] = createOrder(createReply).value
               /\ \A i \in 1..Len(orders) : orders'[i + 1] = orders[i]
       /\ TickApplied
            => /\ Len(orders') = Len(orders)
               /\ \A i \in 1..Len(orders) :
                     orders'[i] \in {TickOrder(orders[i], d) :
                                        d \in DrawsFor(orders[i])}]_vars

\* C17 witness: the created order stands first and the transition a tick
\* made to the last initial order (QUEUED to EXECUTING) stands behind it.
C17_PrependAndTransitionBoth ==
    /\ ~hasError
    /\ ticks > 0
    /\ Len(orders) = 4
    /\ IdOf(orders[1]) = "ord_b1"
    /\ IdOf(orders[4]) = "ord_9z0y1x2w3"
    /\ StatusOf(orders[4]) = "EXECUTING"

\* C18: once the dashboard is unmounted the timer callback never runs again.
C18_NoTickAfterTeardown == [][hasError => ~TickApplied]_vars

\* C18 witness: the dashboard is unmounted, its flows have run out, and the
\* timer had ticks left to give.
C18_TornDownWithTicksLeft ==
    /\ hasError
    /\ ticks < MaxTicks
    /\ submitPc = "idle"
    /\ resetPc = "idle"

C20_IdsKept ==
    [][(TickApplied \/ CreateResolves)
        => \A i \in 1..Len(orders) :
              \E j \in 1..Len(orders') : IdOf(orders'[j]) = IdOf(orders[i])]_vars

\* C20 witness: after a tick and a creation the three initial ids and the
\* created one are all held, the settled first order among them.
C20_AllIdsHeld ==
    /\ ~hasError
    /\ ticks > 0
    /\ submitPc = "idle"
    /\ Len(orders) = 4
    /\ << IdOf(orders[1]), IdOf(orders[2]), IdOf(orders[3]), IdOf(orders[4]) >>
          = << "ord_b1", "ord_7f2k9x1m5", "ord_1a8b3c4d5", "ord_9z0y1x2w3" >>
    /\ StatusOf(orders[2]) = "SUCCESS"

\* C21: one tick moves an order by at most one transition: a QUEUED order
\* stays or becomes EXECUTING, an EXECUTING order stays or becomes SUCCESS or
\* FAILED, and a SUCCESS or FAILED order is returned unchanged.
C21_OneTransitionPerTick ==
    [][/\ Len(orders') = Len(orders)
       /\ \A i \in 1..Len(orders) :
             /\ StatusOf(orders[i]) = "QUEUED"
                   => StatusOf(orders'[i]) \in {"QUEUED", "EXECUTING"}
             /\ StatusOf(orders[i]) = "EXECUTING"
                   => StatusOf(orders'[i]) \in {"EXECUTING", "SUCCESS", "FAILED"}
             /\ StatusOf(orders[i]) \in {"SUCCESS", "FAILED"}
                   => orders'[i] = orders[i]]_vars

\* C21 witness: ticks have taken the QUEUED initial order to EXECUTING and
\* the EXECUTING one to FAILED.
C21_BothTransitionsTaken ==
    /\ ticks > 0
    /\ StatusOf(orders[1]) = "SUCCESS"
    /\ StatusOf(orders[2]) = "FAILED"
    /\ StatusOf(orders[3]) = "EXECUTING"

\* C25: an order tick changes nothing but status: the collection keeps its
\* length and, position by position, every field other than status (id,
\* baseToken, quoteToken, amount, timestamp, idempotencyKey), present or absent.
C25_TickKeepsOtherFields ==
    [][TickApplied =>
         /\ Len(orders') = Len(orders)
         /\ \A i \in 1..Len(orders) :
               Without(orders'[i], "status") = Without(orders[i], "status")]_vars

\* C25 witness: the created order was moved to EXECUTING by a tick and holds
\* every other field the backend gave it.
C25_CreatedOrderTicked ==
    /\ ticks > 0
    /\ Len(orders) = 4
    /\ orders[1] = [BackendOrder(1) EXCEPT !.status = "EXECUTING"]

\* The step that assigns a readMetrics result: the end of a submission or
\* the refresh of a reset.
MetricsAssigned ==
    \/ submitPc = "metricsSent" /\ submitPc' = "idle"
    \/ RefreshReplaces

\* C26: a metrics tick changes only workersActive and queueDepth: maxWorkers,
\* throughput and healthStatus are kept, so maxWorkers changes only in a step
\* that assigns a readMetrics result.
C26_TickKeepsOtherGauges ==
    [][/\ TickApplied =>
             /\ metrics'.maxWorkers = metrics.maxWorkers
             /\ metrics'.throughput = metrics.throughput
             /\ metrics'.healthStatus = metrics.healthStatus
       /\ metrics'.maxWorkers # metrics.maxWorkers => MetricsAssigned]_vars

\* C26 witness: a snapshot assigned from a read was ticked and still has the
\* read's maxWorkers, throughput and healthStatus.
C26_AssignedSnapshotTicked ==
    /\ ticks > 0
    /\ submitPc = "idle"
    /\ metrics.maxWorkers = 9
    /\ metrics.workersActive = 4
    /\ metrics.healthStatus = "down"

\* C22: from the submission of a creation to the resolution of its
\* createOrder call, that call changes neither the collection nor the
\* snapshot: the submitting step and the backend's step leave both alone, and
\* a change inside the window is a tick or the refresh of a reset.
C22_NoPlaceholderWhileOutstanding ==
    [][/\ submitPc = "idle" /\ submitPc' = "createSent"
             => UNCHANGED storeVars
       /\ submitPc \in {"createSent", "createServed"} /\ ~CreateResolves
             => \/ UNCHANGED storeVars
                \/ TickApplied
                \/ RefreshReplaces]_vars

\* C22 witness: the backend has recorded and answered the creation, a tick has
\* fired, and the collection still holds just the three initial orders.
C22_ServedButNotShown ==
    /\ submitPc = "createServed"
    /\ isSubmitting
    /\ nextId = 2
    /\ ticks > 0
    /\ ~hasError
    /\ Len(orders) = 3
    /\ \A i \in 1..3 : IdOf(orders[i]) = IdOf(INITIAL_ORDERS[i])

\* The refresh step that applies a served list read lacking an order the
\* backend holds and the collection shows: the read was taken before the
\* order was created.
StaleRefreshErases ==
    /\ RefreshReplaces
    /\ ~hasError
    /\ listReply.ok
    /\ submitPc = "idle"
    /\ \E i \in 1..Len(backendOrders) :
          /\ \E j \in 1..Len(orders) : orders[j] = backendOrders[i]
          /\ \A j \in 1..Len(orders') : IdOf(orders'[j]) # IdOf(backendOrders[i])

\* C23: an order created since the backend's most recent reset stays in the
\* collection once no request is in flight: no refresh applies a list read
\* taken before the creation and erases the created order.
C23_StaleRefreshKeepsCreated == [][~StaleRefreshErases]_vars

\* C24: the refresh that ends the reset flow leaves the collection equal to
\* the sequence fetchOrders returned and the snapshot equal to a fetchMetrics
\* result, whatever the ticks did to either while the reads were in flight.
C24_RefreshReplacesBoth ==
    [][RefreshReplaces /\ ~hasError =>
         /\ orders' = fetchOrders(listReply)
         /\ \E reply \in MetricsReplies : metrics' = fetchMetrics(reply)]_vars

\* C24 witness: after a tick, a refresh has put the backend's two orders and
\* the read snapshot in place of the ticked initial ones.
C24_RefreshedAfterTick ==
    /\ resetPc = "idle"
    /\ ticks > 0
    /\ ~hasError
    /\ orders = BackendList(2)
    /\ metrics = Snapshot(3, 9, 9, 3, "down")

\* C27: fetchMetrics never throws; for an object payload each gauge is the
\* payload's value when that is a number and 0 otherwise, and healthStatus is
\* the payload's when it is healthy, degraded or down and healthy otherwise;
\* for a text payload the result is all zeros with healthy.
C27_MetricsNormalisedPerField ==
    (call.fn = "fetchMetrics" /\ call.reply.ok) =>
        LET body == call.reply.body
            value == call.outcome.value
        IN  /\ ~call.outcome.threw
            /\ body.t \in {"object", "array"} =>
                  /\ \A f \in {"workersActive", "maxWorkers", "queueDepth",
                                "throughput"} :
                        value[f] = IF f \in DOMAIN body /\ body[f].t = "number"
                                   THEN body[f].n ELSE 0
                  /\ value.healthStatus =
                        IF /\ "healthStatus" \in DOMAIN body
                           /\ body.healthStatus \in {"healthy", "degraded", "down"}
                        THEN body.healthStatus ELSE "healthy"
            /\ body.t = "string" => value = Snapshot(0, 0, 0, 0, "healthy")

\* C27 witness: a payload whose maxWorkers is text came back with that gauge
\* at 0 and the other gauges as they were sent.
C27_OneGaugeDefaulted ==
    /\ call.fn = "fetchMetrics"
    /\ call.reply = OkReply([MetricsBody(5, 10, 7, 3, "healthy")
                                EXCEPT !.maxWorkers = TextValue])
    /\ call.outcome = Returned(Snapshot(5, 0, 7, 3, "healthy"))

\* The order a creation response was built around.
PayloadOrder == Damage(call.entity, call.defect)

\* C28: the idempotencyKey of the order createOrder returns is the one of the
\* payload's order, and is absent when the payload's order has none.
C28_KeyPassedThrough ==
    (/\ call.fn = "createOrder"
     /\ call.shape \in {"bare", "order"}
     /\ ~call.outcome.threw
     /\ call.outcome.value.t = "object") =>
        /\ "idempotencyKey" \in DOMAIN call.outcome.value
              <=> "idempotencyKey" \in DOMAIN PayloadOrder
        /\ Get(call.outcome.value, "idempotencyKey")
              = Get(PayloadOrder, "idempotencyKey")

\* C28 witness: a payload without idempotencyKey came back as an order
\* without one.
C28_KeyLeftAbsent ==
    /\ call.fn = "createOrder"
    /\ call.shape = "order"
    /\ call.defect = "noIdempotencyKey"
    /\ call.reply.ok
    /\ call.outcome = Returned(Without(BackendOrder(1), "idempotencyKey"))

\* A creation response that can be unwrapped in more than one way.
Ambiguous ==
    /\ call.fn = "createOrder"
    /\ call.reply.ok
    /\ call.defect = "none"
    /\ call.shape \in {"bareWithOrder", "bareWithData", "bareWithBoth",
                       "orderAndData"}

\* C29: a creation response that can be unwrapped in more than one way is
\* unwrapped by the precedence direct value, then order, then data.
C29_DirectValueFirst ==
    Ambiguous =>
        call.outcome = Returned(IF call.shape = "orderAndData"
                                THEN call.reply.body.order
                                ELSE call.reply.body)

\* C29 as the code has it: the order member comes first whenever the
\* response has one, then the response itself; a data member is never taken.
C29_OrderMemberFirst ==
    Ambiguous =>
        call.outcome = Returned(IF call.shape = "bareWithData"
                                THEN call.reply.body
                                ELSE call.reply.body.order)

\* C29 witness: an order entity with an order and a data member came back
\* as its order member.
C29_MemberTakenFromEntity ==
    /\ Ambiguous
    /\ call.shape = "bareWithBoth"
    /\ call.outcome = Returned(OrderMember)

\* C30: one list delivered as a bare array, as {orders: [...]} or as
\* {data: [...]} comes back from fetchOrders as the same sequence.
C30_ListEnvelopesEquivalent ==
    (/\ call.fn = "fetchOrders"
     /\ call.reply.ok
     /\ call.shape \in {"array", "orders", "data"}) =>
        call.outcome = Returned(call.items)

\* C30 witness: two orders delivered as {data: [...]} came back as those two
\* orders in that order.
C30_DataListUnwrapped ==
    /\ call.fn = "fetchOrders"
    /\ call.shape = "data"
    /\ call.reply.ok
    /\ call.outcome = Returned(BackendList(2))

\* The step of handleSubmit that sets the flag and issues the creation
\* request, with parseFloat(form.amount) as its amount.
RequestIssued == submitPc = "idle" /\ submitPc' = "createSent"

\* C31: every creation request the submit flow issues carries a positive
\* finite amount: with an empty, zero, negative or non-finite amount no
\* request is issued and the submitting flag stays as it is.
C31_RequestAmountPositiveFinite ==
    [][(RequestIssued \/ (isSubmitting' /\ ~isSubmitting)) =>
         LET parsedAmount == parseFloat(formAmount)
         IN  /\ ~parsedAmount.isNaN
             /\ parsedAmount.finite
             /\ parsedAmount.sign > 0]_vars

Settled == \A i \in 1..Len(orders) : StatusOf(orders[i]) \in {"SUCCESS", "FAILED"}

\* C32: with ticks firing for ever, fair draws and no reset, every order of
\* the collection eventually is SUCCESS or FAILED and stays so for ever.
C32_EveryOrderSettles == <>[]Settled

\* C32 witness: ticks have settled the QUEUED and the EXECUTING initial order.
C32_AllSettled ==
    /\ ticks > 0
    /\ Settled
    /\ StatusOf(orders[3]) = "FAILED"

\* While the dashboard is mounted the flag is set exactly while a submit
\* flow is in flight.
FlagGuardsFlow == ~hasError => (isSubmitting <=> submitPc # "idle")

C34_ReplacedWhateverResetSaid ==
    [][/\ (RefreshReplaces /\ ~hasError /\ ~resetResult.success) =>
             /\ orders' = fetchOrders(listReply)
             /\ \E reply \in MetricsReplies : metrics' = fetchMetrics(reply)
       /\ notice' # "resetFailed"]_vars

\* C34 witness: the reset request failed, the backend kept its order, and
\* the refresh put that order in place of the initial ones without a notice.
C34_ReplacedAfterFailedReset ==
    /\ resetPc = "idle"
    /\ ~hasError
    /\ notice = "none"
    /\ orders = BackendList(1)
    /\ nextId = 2

\* C35: the reads are issued only after resetState has resolved, and until
\* the step that follows both reads the reset flow leaves the collection and
\* the snapshot alone: they change through ticks only.
C35_ResetThenReadsThenReplace ==
    [][/\ (resetPc' = "readsSent" /\ resetPc # "readsSent") =>
             /\ resetPc = "resetSent"
             /\ resetResult' \in {resetState(r) : r \in ResetReplies}
       /\ (resetPc' = "listServed" /\ resetPc # "listServed") =>
             resetPc = "readsSent"
       /\ (storeVars' # storeVars /\ ~TickApplied) => RefreshReplaces]_vars

\* C35 witness: the list read has been served, a tick has fired, and the
\* collection still has the three initial orders although the backend holds
\* two other ones.
C35_ReadsServedNotYetApplied ==
    /\ resetPc = "listServed"
    /\ ticks > 0
    /\ Len(backendOrders) = 2
    /\ Len(orders) = 3
    /\ \A i \in 1..3 : IdOf(orders[i]) = IdOf(INITIAL_ORDERS[i])

====
